---- MODULE Spec2Model ----
(***************************************************************************)
(* State-machine model of src/isolate/three_phase_task.cc (isolated-vm):   *)
(* the three-phase task protocol in asynchronous mode (Phase2Runner and    *)
(* its Phase3Success / Phase3Failure / Phase3Orphan follow-up items) and   *)
(* in synchronous mode (ThreePhaseTask::RunSync).                          *)
(***************************************************************************)
EXTENDS Integers, Sequences, FiniteSets, TLC

\* Isolates are 0 .. NumIsolates-1; isolate 0 is the default (node) isolate.
NumIsolates == 3
\* Number of asynchronous invocations made in one behaviour.
MaxInv == 1
\* Depth of the frames (running Phase2 calls) nested on one thread.
MaxDepth == 2
\* Number of RunSync calls made in one behaviour.
MaxSync == 2

Isolates == 0 .. (NumIsolates - 1)
DefaultIsolate == 0
\* Thread t drains the task queue of isolate t; thread 0 is the default thread.
Threads == Isolates
NoThread == -1

VARIABLES
  disposed,   \* disposed[i]: isolate i has been disposed
  queue,      \* queue[i]: FIFO of the Runnables scheduled on isolate i
  lock,       \* lock[i]: holder thread and depth of isolate i's v8::Locker
  stack,      \* stack[t]: frames of the Phase2 calls in progress on thread t
  inv,        \* inv[k]: history of the k-th asynchronous invocation
  nsync       \* number of RunSync calls made so far

vars == <<disposed, queue, lock, stack, inv, nsync>>

(***************************************************************************)
(* Values, stack traces and external copies                                *)
(***************************************************************************)
\* A stack trace handle: where it was captured, and for which invocation.
StackAt(site, k) == [site |-> site, inv |-> k]

\* A v8 value: message, IsObject(), whether ExternalCopy can copy it, and
\* the chain of stack traces it carries.
Value(msg, obj, copyable, st) ==
  [msg |-> msg, obj |-> obj, copyable |-> copyable, stack |-> st]
NoValue == Value("", FALSE, FALSE, <<>>)

\* Exception::Error(message): a fresh Error object with its own stack.
NewError(msg) == Value(msg, TRUE, TRUE, <<StackAt("created", 0)>>)

\* What Phase2 may throw: an Error, a primitive, an object that is no Error.
Phase2Throws ==
  { Value("boom", TRUE, TRUE, <<StackAt("throw", 0)>>),
    Value("str", FALSE, TRUE, <<>>),
    Value("object", TRUE, FALSE, <<>>) }
\* What Phase3 may return and throw.
Phase3Returns == { Value("42", FALSE, TRUE, <<>>) }
Phase3Throws ==
  { Value("convert", TRUE, TRUE, <<StackAt("throw", 0)>>),
    Value("str", FALSE, TRUE, <<>>) }

\* unique_ptr<ExternalCopy>: null, or the copied message / kind / stack.
NoError == [some |-> FALSE, message |-> "", error |-> FALSE, trace |-> <<>>]
Externalize(v) ==
  IF v.copyable
    THEN [some |-> TRUE, message |-> v.msg, error |-> v.obj, trace |-> v.stack]
    ELSE NoError
CopyInto(e) == Value(e.message, e.error, TRUE, e.trace)

AttachStack(v, h) == [v EXCEPT !.stack = <<h>>]
ChainStack(v, h) == [v EXCEPT !.stack = Append(@, h)]

(***************************************************************************)
(* Executor lock                                                           *)
(***************************************************************************)
Unlocked == [holder |-> NoThread, depth |-> 0]
IsDefaultThread(t) == t = 0
IsLocked(i, t) == lock[i].holder = t
LockFree(i, t) == lock[i].holder \in {NoThread, t}
Acquire(l, i, t) ==
  [l EXCEPT ![i] = [holder |-> t, depth |-> l[i].depth + 1]]
Release(l, i) ==
  [l EXCEPT ![i] = IF l[i].depth = 1 THEN Unlocked
                   ELSE [holder |-> l[i].holder, depth |-> l[i].depth - 1]]

(***************************************************************************)
(* Threads                                                                 *)
(***************************************************************************)
Top(t) == stack[t][Len(stack[t])]
Pop(t) == SubSeq(stack[t], 1, Len(stack[t]) - 1)
\* Isolate::GetCurrent() on thread t.
Cur(t) == IF stack[t] = <<>> THEN t ELSE Top(t).cur
\* User code is running on thread t: top-level code of the default isolate,
\* or the body of a Phase2.
CanCall(t) ==
  \/ t = 0 /\ stack[t] = <<>>
  \/ stack[t] # <<>> /\ Top(t).pc = "p2"

(***************************************************************************)
(* Runnables and the task queues                                           *)
(***************************************************************************)
\* A queued Runnable.  caller is the isolate of info->remotes; a
\* Phase2Runner owns did_run, a Phase3Failure owns error.  even: the item
\* was posted to run even if its isolate is disposed.  owns: the item's
\* unique_ptrs self and info hold the Task and the CalleeInfo.
Item(kind, k, caller, error) ==
  [kind |-> kind, inv |-> k, caller |-> caller, did_run |-> FALSE,
   error |-> error, even |-> FALSE, owns |-> TRUE]

\* std::move(self), std::move(info): what is left in the item moved from.
MoveOut(r) == [r EXCEPT !.owns = FALSE]

\* IsolateHolder::ScheduleTask(item, urgent, runEvenIfDisposed), with
\* urgent false, for an item without a destructor of its own: appended to
\* the isolate's queue, or dropped when the isolate is gone and the item is
\* not to run even so.
ScheduleTask(q, dsp, i, item, runEvenIfDisposed) ==
  IF dsp[i] /\ ~runEvenIfDisposed THEN q
  ELSE [q EXCEPT ![i] = Append(@, [item EXCEPT !.even = runEvenIfDisposed])]

\* ~Phase2Runner: the condition under which the orphan fallback is posted.
DtorNeverRan_Always(did_run) == TRUE
DtorNeverRan_Never(did_run) == FALSE
DtorNeverRan(did_run) == ~did_run

\* ~Phase2Runner: posts Phase3Orphan back to the caller's isolate.
Phase2RunnerDtor(q, dsp, r) ==
  IF DtorNeverRan(r.did_run)
    THEN ScheduleTask(q, dsp, r.caller,
                      [Item("Phase3Orphan", r.inv, r.caller, NoError)
                         EXCEPT !.owns = r.owns], TRUE)
    ELSE q

\* ScheduleTask of a Phase2Runner, posted not to run on a disposed isolate:
\* a runner the target cannot take is destroyed on the spot.
SchedulePhase2Runner(q, dsp, i, r) ==
  IF dsp[i] THEN Phase2RunnerDtor(q, dsp, r) ELSE [q EXCEPT ![i] = Append(@, r)]

\* Disposal destroys, in order and unrun, the queued items that are not to
\* run on a disposed isolate.
RECURSIVE DestroyAll(_, _, _)
DestroyAll(q, dsp, items) ==
  IF items = <<>> THEN q
  ELSE LET it == Head(items)
           q1 == IF ~it.even /\ it.kind = "Phase2Runner"
                   THEN Phase2RunnerDtor(q, dsp, it)
                   ELSE q
       IN DestroyAll(q1, dsp, Tail(items))
KeptOnDispose(items) == SelectSeq(items, LAMBDA it : it.even)

(***************************************************************************)
(* History of an asynchronous invocation                                   *)
(***************************************************************************)
NewInv(caller, target, queued) ==
  [caller |-> caller, target |-> target, queued |-> queued,
   p2 |-> 0, p2res |-> "none", p2val |-> NoValue,
   p3 |-> 0, p3res |-> "none", p3val |-> NoValue,
   settles |-> <<>>, fu |-> 0, dropped |-> ~queued,
   ignored |-> FALSE, epilogue |-> 0, escaped |-> FALSE,
   p1threw |-> FALSE, future |-> TRUE, kept |-> FALSE, ranin |-> <<>>,
   log |-> <<>>]

\* History of an asynchronous invocation whose Phase1 threw to the caller.
NewThrown(caller, target) ==
  [NewInv(caller, target, FALSE) EXCEPT !.p1threw = TRUE, !.future = FALSE]

\* History of a fire-and-ignore invocation: it has no Phase2Runner and no
\* future; posted: its Phase2RunnerIgnored was put on the target's queue.
NewIgnored(caller, target, posted) ==
  [NewInv(caller, target, FALSE) EXCEPT
     !.ignored = TRUE, !.dropped = ~posted, !.future = FALSE]

Settle(r, how, by, v) ==
  [r EXCEPT !.settles = Append(@, [how |-> how, by |-> by, val |-> v])]

\* The calls a follow-up item's Run makes, in order: the CallbackScope is
\* live only in the default isolate; settle are the calls that settle the
\* future; RunMicrotasks follows, and the scope ends with Run.
FollowUpEvents_NoDrain(caller, settle) ==
  (IF caller = DefaultIsolate THEN <<"CallbackScope">> ELSE <<>>)
  \o settle
  \o (IF caller = DefaultIsolate THEN <<"~CallbackScope">> ELSE <<>>)
FollowUpEvents(caller, settle) ==
  (IF caller = DefaultIsolate THEN <<"CallbackScope">> ELSE <<>>)
  \o settle \o <<"RunMicrotasks">>
  \o (IF caller = DefaultIsolate THEN <<"~CallbackScope">> ELSE <<>>)

DisposedMessage == "Isolate is disposed"
PlaceholderMessage == "An exception was thrown. Sorry I don't know more."

\* Phase3Orphan::Run: the error the future is rejected with.
OrphanError_NoStack(k) == NewError(DisposedMessage)
OrphanError(k) == AttachStack(NewError(DisposedMessage), StackAt("invoke", k))

Phase3OrphanRun(r, k) ==
  [Settle(r, "reject", "Orphan", OrphanError(k)) EXCEPT
     !.fu = @ + 1, !.log = @ \o FollowUpEvents(r.caller, <<"Reject">>)]

\* Phase3Failure::Run: the rejection built from the carried error.
FailureRejection_NoPlaceholder(error, k) ==
  LET rejection == CopyInto(error)
  IN IF rejection.obj THEN ChainStack(rejection, StackAt("invoke", k)) ELSE rejection
FailureRejection_Attach(error, k) ==
  LET rejection == IF error.some THEN CopyInto(error) ELSE NewError(PlaceholderMessage)
  IN IF rejection.obj THEN AttachStack(rejection, StackAt("invoke", k)) ELSE rejection
FailureRejection(error, k) ==
  LET rejection == IF error.some THEN CopyInto(error) ELSE NewError(PlaceholderMessage)
  IN IF rejection.obj THEN ChainStack(rejection, StackAt("invoke", k)) ELSE rejection

Phase3FailureRun(r, k, error) ==
  [Settle(r, "reject", "Failure", FailureRejection(error, k)) EXCEPT
     !.fu = @ + 1, !.log = @ \o FollowUpEvents(r.caller, <<"Reject">>)]

\* Phase3Success::Run: Phase3 returns v, or throws v.
Phase3SuccessSettle_ResolveAlways(r, k, threw, v) == Settle(r, "resolve", "Success", v)
Phase3SuccessSettle(r, k, threw, v) ==
  IF ~threw THEN Settle(r, "resolve", "Success", v)
  ELSE Settle(r, "reject", "Success",
              IF v.obj THEN AttachStack(v, StackAt("invoke", k)) ELSE v)

Phase3SuccessRun(r, k, threw, v) ==
  [Phase3SuccessSettle(r, k, threw, v) EXCEPT
     !.p3 = @ + 1, !.p3res = IF threw THEN "threw" ELSE "returned",
     !.p3val = v, !.fu = @ + 1,
     !.log = @ \o FollowUpEvents(r.caller,
                                 <<"Phase3", IF threw THEN "Reject" ELSE "Resolve">>)]

(***************************************************************************)
(* Frames                                                                  *)
(***************************************************************************)
NoItem == Item("none", 0, 0, NoError)

\* A call in progress on a thread: the Phase2 of a dequeued Phase2Runner
\* (kind "Phase2Runner"), or a RunSync call (kind "RunSync").  For RunSync:
\*   pc       "acquire" while the thread waits for the ExecutorLock, "p2"
\*            while Phase2 runs, "done" when the call is about to return or
\*            throw to its caller;
\*   path     "shortcut" or "lock" ("none": the call failed before either);
\*   checked  the deadlock protection was evaluated;
\*   held     the thread held the target's lock when it made the call;
\*   gone     the target was disposed when the call was made;
\*   p2, p3   calls of Phase2 and Phase3 made; p2val what Phase2 threw;
\*   outcome  "error", "p2threw", "thrown", "p3threw" or "returned", with
\*            the value thrown or returned in val;
\*   epilogue calls of the target's TaskEpilogue made by RunSync;
\*   before   the target's lock as the call found it when it took it;
\*   after    the target's lock when the call threw or called Phase3.
Frame(t, kind, runner, from, target, cur, pc, path, checked, recursive, held) ==
  [thread |-> t, gone |-> disposed[target],
   kind |-> kind, runner |-> runner, from |-> from, target |-> target,
   cur |-> cur, pc |-> pc, path |-> path, checked |-> checked,
   recursive |-> recursive, held |-> held,
   p2 |-> 0, p2val |-> NoValue, p3 |-> 0, outcome |-> "none", val |-> NoValue,
   epilogue |-> 0, before |-> Unlocked, after |-> Unlocked]

Done(f, p2val, p3, outcome, val) ==
  [f EXCEPT !.pc = "done", !.cur = f.from, !.p2val = p2val, !.p3 = p3,
            !.outcome = outcome, !.val = val]

SyncDisposedMessage == "Isolated is disposed"
DeadlockMessage ==
  "Calling a synchronous isolated-vm function from within an asynchronous isolated-vm function is not allowed."

(***************************************************************************)
(* Initial state                                                           *)
(***************************************************************************)
Init ==
  /\ disposed = [i \in Isolates |-> FALSE]
  /\ queue = [i \in Isolates |-> <<>>]
  \* the default thread runs inside the default isolate from the start
  /\ lock = [i \in Isolates |->
               IF i = DefaultIsolate THEN [holder |-> 0, depth |-> 1] ELSE Unlocked]
  /\ stack = [t \in Threads |-> <<>>]
  /\ inv = <<>>
  /\ nsync = 0

(***************************************************************************)
(* Asynchronous mode                                                       *)
(***************************************************************************)
\* The invocation goes on to create the future and post the runner only
\* when Phase1 returned.
Phase1Posts_Always(p1threw) == TRUE
Phase1Posts(p1threw) == ~p1threw

\* An asynchronous invocation made by the code running on thread t: Phase1
\* runs in the caller; when it returns, the Phase2Runner is scheduled on the
\* target isolate.
InvokeAsync(t, tgt) ==
  /\ CanCall(t)
  /\ Len(inv) < MaxInv
  /\ \E p1threw \in BOOLEAN :
       LET k == Len(inv) + 1
           caller == Cur(t)
       IN IF Phase1Posts(p1threw)
            THEN /\ inv' = Append(inv, [NewInv(caller, tgt, ~disposed[tgt])
                                          EXCEPT !.p1threw = p1threw])
                 /\ queue' = SchedulePhase2Runner(queue, disposed, tgt,
                                                  Item("Phase2Runner", k, caller, NoError))
            ELSE /\ inv' = Append(inv, NewThrown(caller, tgt))
                 /\ queue' = queue
  /\ UNCHANGED <<disposed, lock, stack, nsync>>

\* A fire-and-ignore invocation made by the code running on thread t: the
\* Phase2RunnerIgnored is scheduled on the target isolate, and dropped when
\* the target is disposed.
InvokeIgnored(t, tgt) ==
  /\ CanCall(t)
  /\ Len(inv) < MaxInv
  /\ LET k == Len(inv) + 1
         caller == Cur(t)
     IN /\ inv' = Append(inv, NewIgnored(caller, tgt, ~disposed[tgt]))
        /\ queue' = ScheduleTask(queue, disposed, tgt,
                                 Item("Phase2RunnerIgnored", k, caller, NoError), FALSE)
  /\ UNCHANGED <<disposed, lock, stack, nsync>>

\* Isolate i is disposed: its queued items are destroyed without running.
Dispose(i) ==
  /\ i # DefaultIsolate
  /\ ~disposed[i]
  /\ disposed' = [disposed EXCEPT ![i] = TRUE]
  /\ queue' = DestroyAll([queue EXCEPT ![i] = KeptOnDispose(@)], disposed', queue[i])
  /\ inv' = [k \in DOMAIN inv |->
               IF \E j \in DOMAIN queue[i] :
                    /\ queue[i][j].kind \in {"Phase2Runner", "Phase2RunnerIgnored"}
                    /\ queue[i][j].inv = k
                    /\ ~queue[i][j].even
                 THEN [inv[k] EXCEPT !.dropped = TRUE]
                 ELSE inv[k]]
  /\ UNCHANGED <<lock, stack, nsync>>

\* Thread t may take the next item of its isolate's queue.
CanRun(t, kind) ==
  /\ stack[t] = <<>>
  /\ queue[t] # <<>>
  /\ Head(queue[t]).kind = kind
  /\ LockFree(t, t)

\* Phase2Runner::Run, up to the call of Phase2.
DidRunAtStart_Unset == FALSE
DidRunAtStart == TRUE
Phase2RunnerStart(t) ==
  /\ CanRun(t, "Phase2Runner")
  /\ LET r == Head(queue[t])
     IN /\ stack' = [stack EXCEPT ![t] =
                       <<Frame(t, "Phase2Runner", [r EXCEPT !.did_run = DidRunAtStart],
                               r.caller, t, t, "p2", "async", FALSE, FALSE, FALSE)>>]
        /\ inv' = [inv EXCEPT ![r.inv].p2 = @ + 1]
  /\ queue' = [queue EXCEPT ![t] = Tail(@)]
  /\ lock' = Acquire(lock, t, t)
  /\ UNCHANGED <<disposed, nsync>>

\* Phase2Runner::Run: the follow-up item for Phase2's outcome.
Phase2RunnerFollowUp_AlwaysSuccess(r, threw, v) ==
  Item("Phase3Success", r.inv, r.caller, NoError)
Phase2RunnerFollowUp(r, threw, v) ==
  [(IF ~threw THEN Item("Phase3Success", r.inv, r.caller, NoError)
    ELSE Item("Phase3Failure", r.inv, r.caller, Externalize(v)))
   EXCEPT !.owns = r.owns]

\* Phase2Runner::Run: the calls made inside RunCatchExternal, in order.
Phase2RunnerEvents(threw) ==
  IF threw THEN <<"Phase2", "ScheduleTask">>
  ELSE <<"Phase2", "TaskEpilogue", "ScheduleTask">>

\* info->remotes.GetIsolateHolder(): the isolate the follow-up is posted to
\* by a runner running on isolate t.
FollowUpHolder_Target(r, t) == t
FollowUpHolder(r, t) == r.caller

\* Phase2 returns (out = NoValue) or throws out; Run posts the follow-up to
\* the caller's isolate, and the runner is destroyed.
Phase2RunnerFinish(t) ==
  /\ stack[t] # <<>>
  /\ Top(t).kind = "Phase2Runner"
  /\ \E out \in {NoValue} \cup Phase2Throws :
       LET r == Top(t).runner
           threw == out # NoValue
           q1 == ScheduleTask(queue, disposed, FollowUpHolder(r, t),
                              Phase2RunnerFollowUp(r, threw, out), TRUE)
           r1 == MoveOut(r)
       IN /\ queue' = Phase2RunnerDtor(q1, disposed, r1)
          /\ inv' = [inv EXCEPT ![r.inv].p2res = IF threw THEN "threw" ELSE "returned",
                                ![r.inv].p2val = out,
                                ![r.inv].kept = r1.owns,
                                ![r.inv].log = @ \o Phase2RunnerEvents(threw)]
  /\ stack' = [stack EXCEPT ![t] = Pop(t)]
  /\ lock' = Release(lock, t)
  /\ UNCHANGED <<disposed, nsync>>

Phase3SuccessItem(t) ==
  /\ CanRun(t, "Phase3Success")
  /\ \E threw \in BOOLEAN :
       \E v \in (IF threw THEN Phase3Throws ELSE Phase3Returns) :
         LET k == Head(queue[t]).inv
         IN inv' = [inv EXCEPT ![k] = [Phase3SuccessRun(inv[k], k, threw, v)
                                         EXCEPT !.ranin = Append(@, t)]]
  /\ queue' = [queue EXCEPT ![t] = Tail(@)]
  /\ UNCHANGED <<disposed, lock, stack, nsync>>

Phase3FailureItem(t) ==
  /\ CanRun(t, "Phase3Failure")
  /\ LET it == Head(queue[t])
     IN inv' = [inv EXCEPT ![it.inv] =
                  [Phase3FailureRun(inv[it.inv], it.inv, it.error)
                     EXCEPT !.ranin = Append(@, t)]]
  /\ queue' = [queue EXCEPT ![t] = Tail(@)]
  /\ UNCHANGED <<disposed, lock, stack, nsync>>

Phase3OrphanItem(t) ==
  /\ CanRun(t, "Phase3Orphan")
  /\ LET k == Head(queue[t]).inv
     IN inv' = [inv EXCEPT ![k] = [Phase3OrphanRun(inv[k], k)
                                     EXCEPT !.ranin = Append(@, t)]]
  /\ queue' = [queue EXCEPT ![t] = Tail(@)]
  /\ UNCHANGED <<disposed, lock, stack, nsync>>

(***************************************************************************)
(* Fire-and-ignore: ThreePhaseTask::Phase2RunnerIgnored                    *)
(***************************************************************************)
\* Phase2RunnerIgnored::Run, up to the call of Phase2.
Phase2RunnerIgnoredStart(t) ==
  /\ CanRun(t, "Phase2RunnerIgnored")
  /\ LET r == Head(queue[t])
     IN /\ stack' = [stack EXCEPT ![t] =
                       <<Frame(t, "Phase2RunnerIgnored", r, r.caller, t, t, "p2",
                               "async", FALSE, FALSE, FALSE)>>]
        /\ inv' = [inv EXCEPT ![r.inv].p2 = @ + 1]
  /\ queue' = [queue EXCEPT ![t] = Tail(@)]
  /\ lock' = Acquire(lock, t, t)
  /\ UNCHANGED <<disposed, nsync>>

\* Phase2RunnerIgnored::Run: TaskEpilogue is called when Phase2 returned, and
\* the catch clause lets no failure of Phase2 out of Run.
IgnoredEpilogue_Always(threw) == TRUE
IgnoredEpilogue(threw) == ~threw
IgnoredRethrows(threw) == FALSE

\* Phase2 returns (out = NoValue) or throws out; nothing is posted.
Phase2RunnerIgnoredFinish(t) ==
  /\ stack[t] # <<>>
  /\ Top(t).kind = "Phase2RunnerIgnored"
  /\ \E out \in {NoValue} \cup Phase2Throws :
       LET r == Top(t).runner
           threw == out # NoValue
       IN inv' = [inv EXCEPT ![r.inv].p2res = IF threw THEN "threw" ELSE "returned",
                             ![r.inv].p2val = out,
                             ![r.inv].epilogue = IF IgnoredEpilogue(threw) THEN @ + 1 ELSE @,
                             ![r.inv].escaped = IgnoredRethrows(threw)]
  /\ stack' = [stack EXCEPT ![t] = Pop(t)]
  /\ lock' = Release(lock, t)
  /\ UNCHANGED <<disposed, queue, nsync>>

(***************************************************************************)
(* Synchronous mode: ThreePhaseTask::RunSync                               *)
(***************************************************************************)
\* The disposed test: second_isolate.GetIsolate() yields no isolate.
RunSyncDisposed_Never(dsp, tgt) == FALSE
RunSyncDisposed(dsp, tgt) == dsp[tgt]

\* The shortcut test: the target is the isolate the thread is entered in.
RunSyncShortcut_Never(tgt, cur) == FALSE
RunSyncShortcut_Always(tgt, cur) == TRUE
RunSyncShortcut(tgt, cur) == tgt = cur

\* Deadlock protection: the call is refused off the default thread.
DeadlockProtection_Off(t) == FALSE
DeadlockProtection(t) == ~IsDefaultThread(t)

\* After the lock is released: is the stashed error thrown to the caller?
RunSyncRethrows(error) == error.some

\* RunSync up to the ExecutorLock: the disposed test, the shortcut, the
\* deadlock protection and is_recursive.
CallRunSync(t, tgt) ==
  /\ CanCall(t)
  /\ Len(stack[t]) < MaxDepth
  /\ nsync < MaxSync
  /\ LET from == Cur(t)
         held == IsLocked(tgt, t)
         frame(cur, pc, path, checked) ==
           Frame(t, "RunSync", NoItem, from, tgt, cur, pc, path, checked, held, held)
         f == IF RunSyncDisposed(disposed, tgt)
                THEN Done(frame(from, "done", "none", FALSE), NoValue, 0, "error",
                          NewError(SyncDisposedMessage))
              ELSE IF RunSyncShortcut(tgt, from)
                THEN [frame(tgt, "p2", "shortcut", FALSE) EXCEPT !.p2 = 1]
              ELSE IF DeadlockProtection(t)
                THEN Done(frame(from, "done", "none", TRUE), NoValue, 0, "error",
                          NewError(DeadlockMessage))
              ELSE frame(from, "acquire", "lock", TRUE)
     IN stack' = [stack EXCEPT ![t] = Append(@, f)]
  /\ nsync' = nsync + 1
  /\ UNCHANGED <<disposed, queue, lock, inv>>

\* The ExecutorLock is taken (the thread blocks until it can be), the
\* target isolate is entered and Phase2 is called.
AcquireLock(t) ==
  /\ stack[t] # <<>>
  /\ Top(t).pc = "acquire"
  /\ LockFree(Top(t).target, t)
  /\ lock' = Acquire(lock, Top(t).target, t)
  /\ stack' = [stack EXCEPT ![t][Len(stack[t])] =
                 [@ EXCEPT !.pc = "p2", !.cur = Top(t).target, !.p2 = 1,
                           !.before = lock[Top(t).target]]]
  /\ UNCHANGED <<disposed, queue, inv, nsync>>

\* Inside the ExecutorLock: TaskEpilogue is called after Phase2 returned
\* when the lock was not already held.
RunSyncEpilogue_Always(is_recursive) == TRUE
RunSyncEpilogue(is_recursive) == ~is_recursive

\* The end of the scope of the ExecutorLock: the lock this call took is
\* released.
ExecutorLockExit_Late(l, f) == l
ExecutorLockExit(l, f) == IF f.path = "lock" THEN Release(l, f.target) ELSE l

\* The rest of RunSync once Phase2 returned (out = NoValue) or threw out.
\* p3threw, p3v: what Phase3 does if it is called.
RunSyncEnd(f0, out, p3threw, p3v) ==
  LET threw == out # NoValue
      f == [f0 EXCEPT !.epilogue =
              IF f0.path = "lock" /\ ~threw /\ RunSyncEpilogue(f0.recursive)
                THEN @ + 1 ELSE @]
      final == Done(f, out, 1, IF p3threw THEN "p3threw" ELSE "returned", p3v)
  IN IF f.path = "shortcut"
       THEN IF threw THEN Done(f, out, 0, "p2threw", out) ELSE final
       ELSE LET error == IF threw THEN Externalize(out) ELSE NoError
                error_copy == CopyInto(error)
            IN IF RunSyncRethrows(error)
                 THEN Done(f, out, 0, "thrown",
                           IF error_copy.obj
                             THEN ChainStack(error_copy, StackAt("sync", 0))
                             ELSE error_copy)
                 ELSE final

\* Phase2 ends: the lock taken by this call is released, and then the call
\* throws or runs Phase3.
RunSyncFinish(t) ==
  /\ stack[t] # <<>>
  /\ Top(t).kind = "RunSync"
  /\ Top(t).pc = "p2"
  /\ LET l1 == ExecutorLockExit(lock, Top(t))
     IN /\ \E out \in {NoValue} \cup Phase2Throws :
             \E p3threw \in BOOLEAN :
               \E p3v \in (IF p3threw THEN Phase3Throws ELSE Phase3Returns) :
                 stack' = [stack EXCEPT ![t][Len(stack[t])] =
                             [RunSyncEnd(Top(t), out, p3threw, p3v)
                                EXCEPT !.after = l1[Top(t).target]]]
        /\ lock' = l1
  /\ UNCHANGED <<disposed, queue, inv, nsync>>

\* Control is back in the code that called RunSync.
RunSyncReturn(t) ==
  /\ stack[t] # <<>>
  /\ Top(t).pc = "done"
  /\ stack' = [stack EXCEPT ![t] = Pop(t)]
  /\ UNCHANGED <<disposed, queue, lock, inv, nsync>>

(***************************************************************************)
(* Specification                                                           *)
(***************************************************************************)
Next ==
  \/ \E t \in Threads : \E tgt \in Isolates : InvokeAsync(t, tgt)
  \/ \E t \in Threads : \E tgt \in Isolates : InvokeIgnored(t, tgt)
  \/ \E i \in Isolates : Dispose(i)
  \/ \E t \in Threads : Phase2RunnerStart(t)
  \/ \E t \in Threads : Phase2RunnerFinish(t)
  \/ \E t \in Threads : Phase3SuccessItem(t)
  \/ \E t \in Threads : Phase3FailureItem(t)
  \/ \E t \in Threads : Phase3OrphanItem(t)
  \/ \E t \in Threads : Phase2RunnerIgnoredStart(t)
  \/ \E t \in Threads : Phase2RunnerIgnoredFinish(t)
  \/ \E t \in Threads : \E tgt \in Isolates : CallRunSync(t, tgt)
  \/ \E t \in Threads : AcquireLock(t)
  \/ \E t \in Threads : RunSyncFinish(t)
  \/ \E t \in Threads : RunSyncReturn(t)

Spec == Init /\ [][Next]_vars

\* The steps thread t takes by itself: draining its isolate's queue,
\* ending a phase it has called, taking a lock it waits for, returning.
ThreadStep(t) ==
  \/ Phase2RunnerStart(t)
  \/ Phase2RunnerFinish(t)
  \/ Phase3SuccessItem(t)
  \/ Phase3FailureItem(t)
  \/ Phase3OrphanItem(t)
  \/ Phase2RunnerIgnoredStart(t)
  \/ Phase2RunnerIgnoredFinish(t)
  \/ AcquireLock(t)
  \/ RunSyncFinish(t)
  \/ RunSyncReturn(t)

\* Fair scheduling: every phase ends and every queue is drained; no thread
\* that can take a step stops for ever.
Fairness == \A t \in Threads : WF_vars(ThreadStep(t))

LiveSpec == Init /\ [][Next]_vars /\ Fairness

(***************************************************************************)
(* Properties                                                              *)
(***************************************************************************)
Invs == DOMAIN inv
Settles(k) == Len(inv[k].settles)
Resolved(k) == \E j \in DOMAIN inv[k].settles : inv[k].settles[j].how = "resolve"
HasStack(v, h) == \E j \in DOMAIN v.stack : v.stack[j] = h
SameButStack(v, w) == [v EXCEPT !.stack = <<>>] = [w EXCEPT !.stack = <<>>]

\* The RunSync calls in progress or about to return to their caller.
SyncFrames ==
  { f \in UNION { { stack[t][d] : d \in DOMAIN stack[t] } : t \in Threads } :
      f.kind = "RunSync" }
DoneFrames == { f \in SyncFrames : f.pc = "done" }

\* C1: the future of an asynchronous invocation whose Phase2Runner was
\* queued is settled at most once in every state, and exactly once as soon
\* as a follow-up item (Success, Failure or Orphan) has run.
C1_SettledAtMostOnce ==
  \A k \in Invs :
    inv[k].queued =>
      /\ Settles(k) <= 1
      /\ (inv[k].fu >= 1 => Settles(k) = 1)
C1_Witness ==
  \E k \in Invs :
    inv[k].queued /\ inv[k].p2res = "returned" /\ inv[k].fu = 1 /\ Settles(k) = 1

\* C2: under fair scheduling, every asynchronous invocation whose runner was
\* queued is eventually settled, whether the runner is run or is discarded
\* by the disposal of its target.
C2_EventuallySettled ==
  \A k \in 1 .. MaxInv :
    (k \in Invs /\ inv[k].queued)
      ~> (k \in Invs /\ Settles(k) >= 1)
C2_Witness ==
  \E k \in Invs :
    /\ inv[k].queued /\ inv[k].dropped
    /\ disposed[inv[k].target]
    /\ Settles(k) = 1

\* C3: a queued runner discarded unrun by the disposal of its target leaves
\* Phase2 and Phase3 uncalled, and its future is never resolved: it is
\* rejected, by the orphan item, with the disposed error carrying the stack
\* captured at invocation.
C3_OrphanRejection ==
  \A k \in Invs :
    (inv[k].queued /\ inv[k].dropped) =>
      /\ inv[k].p2 = 0 /\ inv[k].p3 = 0
      /\ \A j \in DOMAIN inv[k].settles :
           LET s == inv[k].settles[j]
           IN /\ s.how = "reject"
              /\ s.val.msg = DisposedMessage
              /\ HasStack(s.val, StackAt("invoke", k))
      /\ (inv[k].fu >= 1 => Settles(k) = 1)
C3_Witness ==
  \E k \in Invs :
    /\ inv[k].queued /\ inv[k].dropped /\ inv[k].fu = 1
    /\ inv[k].settles[1].by = "Orphan"

\* C4 as claimed: a RunSync call made by a thread that holds the target's
\* execution right takes no executor lock and makes no deadlock check.
C4_Original ==
  \A f \in SyncFrames : f.held => (~f.checked /\ f.path # "lock")
\* C4 as amended: a RunSync call on a live target that is the isolate the
\* calling thread is entered in takes the shortcut: no executor lock, no
\* deadlock check, Phase2 called once inline on that thread, and Phase3
\* called and its value returned when Phase2 returns.
C4_Shortcut ==
  \A f \in SyncFrames :
    (f.from = f.target /\ ~f.gone) =>
      /\ f.path = "shortcut" /\ ~f.checked /\ f.p2 = 1
      /\ f.pc \in {"p2", "done"}
      /\ (f.pc = "p2" => f.cur = f.target)
      /\ (f.pc = "done" =>
            \/ f.outcome = "p2threw" /\ f.p2val # NoValue /\ f.p3 = 0
            \/ /\ f.outcome \in {"returned", "p3threw"}
               /\ f.p2val = NoValue /\ f.p3 = 1
               /\ (f.outcome = "returned" => f.val \in Phase3Returns))
C4_Witness ==
  \E f \in DoneFrames :
    f.from = f.target /\ ~f.gone /\ f.held /\ f.outcome = "returned"

\* C5 as claimed: a RunSync call made off the default thread on a target
\* other than the isolate the thread is entered in fails at once with the
\* deadlock error, whatever the state of the target.
C5_Original ==
  \A f \in SyncFrames :
    (~IsDefaultThread(f.thread) /\ f.from # f.target) =>
      /\ f.pc = "done" /\ f.outcome = "error"
      /\ f.val.msg = DeadlockMessage
\* C5 as amended: such a call fails at once, with the deadlock error when
\* the target is live and with the disposed error when it is disposed.
C5_DeadlockError ==
  \A f \in SyncFrames :
    (~IsDefaultThread(f.thread) /\ f.from # f.target) =>
      /\ f.pc = "done" /\ f.outcome = "error"
      /\ f.val.msg = IF f.gone THEN SyncDisposedMessage ELSE DeadlockMessage
C5_Witness ==
  \E f \in DoneFrames :
    /\ ~IsDefaultThread(f.thread) /\ f.from # f.target /\ ~f.gone
    /\ f.val.msg = DeadlockMessage

\* C6: the deadlock error comes before any lock attempt: a call off the
\* default thread on another isolate never reaches the ExecutorLock and
\* calls neither Phase2 nor Phase3, and no thread other than the default
\* thread ever waits for a lock.
C6_NoLockAttempt ==
  /\ \A f \in SyncFrames :
       (~IsDefaultThread(f.thread) /\ f.from # f.target) =>
         f.path = "none" /\ f.pc # "acquire" /\ f.p2 = 0 /\ f.p3 = 0
  /\ \A f \in SyncFrames :
       f.val.msg = DeadlockMessage => f.path = "none" /\ f.p2 = 0 /\ f.p3 = 0
  /\ \A f \in SyncFrames : f.path = "lock" => IsDefaultThread(f.thread)
C6_Witness ==
  \E f \in DoneFrames :
    /\ ~IsDefaultThread(f.thread) /\ f.val.msg = DeadlockMessage
    /\ lock[f.target].holder \notin {NoThread, f.thread}

\* C7: no set of threads waits for executor locks in a cycle, and a RunSync
\* call waiting for the ExecutorLock gets it and then returns or throws.
WaitsFor(t, u) ==
  /\ stack[t] # <<>>
  /\ Top(t).pc = "acquire"
  /\ u # t
  /\ lock[Top(t).target].holder = u
NoWaitCycle ==
  \A S \in SUBSET Threads :
    S # {} => \E t \in S : \A u \in S : ~WaitsFor(t, u)
WaitingAt(t, d) == d \in DOMAIN stack[t] /\ stack[t][d].pc = "acquire"
DoneAt(t, d) == d \in DOMAIN stack[t] /\ stack[t][d].pc = "done"
C7_NoDeadlock ==
  /\ []NoWaitCycle
  /\ \A t \in Threads : \A d \in 1 .. MaxDepth : WaitingAt(t, d) ~> DoneAt(t, d)
C7_Witness ==
  \E t \in Threads : \E u \in Threads : WaitsFor(t, u)

\* C8: on the locking path, whenever Phase2 throws, whether or not the
\* thrown value can be externalized, RunSync throws to its caller and
\* Phase3 is not called.
C8_SyncFailureThrown ==
  \A f \in DoneFrames :
    (f.path = "lock" /\ f.p2val # NoValue) => (f.outcome = "thrown" /\ f.p3 = 0)

\* C9: when Phase2 throws in asynchronous mode, Phase3 is never called and
\* the future is never resolved: the failure item rejects it with the copy
\* of the thrown value, or with the placeholder error when there is none.
C9_FailureRejected ==
  \A k \in Invs :
    inv[k].p2res = "threw" =>
      /\ inv[k].p3 = 0
      /\ \A j \in DOMAIN inv[k].settles :
           LET s == inv[k].settles[j]
           IN /\ s.how = "reject"
              /\ s.val.msg = IF inv[k].p2val.copyable THEN inv[k].p2val.msg
                             ELSE PlaceholderMessage
      /\ (inv[k].fu >= 1 => Settles(k) = 1)
C9_Witness ==
  \E k \in Invs :
    /\ inv[k].p2res = "threw" /\ ~inv[k].p2val.copyable
    /\ inv[k].fu = 1 /\ inv[k].settles[1].val.msg = PlaceholderMessage

\* C10: the future is resolved exactly when Phase2 and Phase3 both return,
\* and then with the value Phase3 returned; when Phase3 throws, the future
\* is rejected with the thrown value and not resolved.
C10_ResolvedIff ==
  \A k \in Invs :
    /\ Resolved(k) <=> (inv[k].p2res = "returned" /\ inv[k].p3res = "returned")
    /\ (Resolved(k) => inv[k].settles = <<[how |-> "resolve", by |-> "Success",
                                           val |-> inv[k].p3val]>>)
    /\ (inv[k].p3res = "threw" =>
          /\ Settles(k) = 1
          /\ inv[k].settles[1].how = "reject"
          /\ SameButStack(inv[k].settles[1].val, inv[k].p3val))
C10_Witness ==
  \E k \in Invs : Resolved(k) /\ inv[k].settles[1].val.msg = "42"

\* C11: a RunSync call on a target that is already disposed fails at once
\* with the disposed error: it evaluates no deadlock protection, reaches no
\* ExecutorLock (neither waits for one nor takes one), and calls neither
\* Phase2 nor Phase3.
C11_DisposedError ==
  \A f \in SyncFrames :
    f.gone =>
      /\ f.pc = "done" /\ f.outcome = "error"
      /\ f.val.msg = SyncDisposedMessage
      /\ f.path = "none" /\ ~f.checked
      /\ f.p2 = 0 /\ f.p3 = 0
C11_Witness ==
  \E f \in DoneFrames :
    /\ f.gone /\ IsDefaultThread(f.thread) /\ f.from # f.target
    /\ f.val.msg = SyncDisposedMessage
    /\ lock[f.target] = Unlocked

\* Thread t is running a phase inside isolate i: the default thread runs the
\* top-level code of the default isolate, and any thread runs the Phase2 on
\* top of its stack.
Inside(t, i) ==
  \/ t = 0 /\ stack[t] = <<>> /\ i = DefaultIsolate
  \/ stack[t] # <<>> /\ Top(t).pc = "p2" /\ Top(t).cur = i

\* C12: in every state at most one thread is running a phase inside a given
\* isolate, every thread running inside an isolate (Phase2 of a dequeued
\* runner, Phase2 of a RunSync call after the shortcut or the ExecutorLock)
\* holds that isolate's lock, and a follow-up item runs in its isolate only
\* while no other thread runs inside it.
C12_OneThreadPerContext ==
  /\ [](\A i \in Isolates : \A t \in Threads : \A u \in Threads :
          (Inside(t, i) /\ Inside(u, i)) => t = u)
  /\ [](\A i \in Isolates : \A t \in Threads : Inside(t, i) => IsLocked(i, t))
  /\ [][\A k \in DOMAIN inv :
          inv'[k].fu # inv[k].fu =>
            \A u \in Threads :
              u # inv[k].caller => ~Inside(u, inv[k].caller) /\ ~IsLocked(inv[k].caller, u)]_vars
C12_Witness ==
  \E t \in Threads : \E i \in Isolates :
    /\ t # i /\ Inside(t, i) /\ Top(t).path = "lock"
    /\ queue[i] # <<>> /\ Head(queue[i]).kind = "Phase2Runner"

\* The stack chain of the error Phase3Failure::Run materializes, before the
\* invocation-site stack is added to it.
MaterializedStack(thrown) ==
  IF thrown.copyable THEN thrown.stack ELSE NewError(PlaceholderMessage).stack

\* C13 as claimed: on every failure path that delivers an error object, the
\* delivered stack chain is the error's existing chain followed by the
\* invocation-site stack.
C13_Original ==
  /\ \A k \in Invs : \A j \in DOMAIN inv[k].settles :
       LET s == inv[k].settles[j]
       IN (s.how = "reject" /\ s.val.obj) =>
            s.val.stack =
              (CASE s.by = "Failure" -> MaterializedStack(inv[k].p2val)
                 [] s.by = "Success" -> inv[k].p3val.stack
                 [] s.by = "Orphan" -> NewError(DisposedMessage).stack)
              \o <<StackAt("invoke", k)>>
  /\ \A f \in DoneFrames :
       (f.outcome = "thrown" /\ f.val.obj) =>
         f.val.stack = f.p2val.stack \o <<StackAt("sync", 0)>>
\* C13 as amended: the invocation-site stack is chained (appended to the
\* existing chain) on the Phase2 failure paths only, asynchronous and
\* synchronous; on an asynchronous Phase3 throw and on the orphan rejection
\* it is attached, so that the delivered error object carries the
\* invocation-site stack alone; a thrown value that is no object is
\* delivered with no stack.
C13_ChainedOnPhase2Failure ==
  /\ \A k \in Invs : \A j \in DOMAIN inv[k].settles :
       LET s == inv[k].settles[j]
       IN s.how = "reject" =>
            s.val.stack =
              (CASE ~s.val.obj -> <<>>
                 [] s.val.obj /\ s.by = "Failure" ->
                      MaterializedStack(inv[k].p2val) \o <<StackAt("invoke", k)>>
                 [] s.val.obj /\ s.by # "Failure" -> <<StackAt("invoke", k)>>)
  /\ \A f \in DoneFrames :
       f.outcome = "thrown" =>
         f.val.stack = IF f.val.obj THEN f.p2val.stack \o <<StackAt("sync", 0)>>
                       ELSE <<>>
C13_Witness ==
  \E k \in Invs :
    /\ inv[k].p2res = "threw" /\ inv[k].p2val.msg = "boom" /\ Settles(k) = 1
    /\ inv[k].settles[1].val.stack = <<StackAt("throw", 0), StackAt("invoke", k)>>

\* The items of invocation k waiting on the queues.
ItemsOf(k) ==
  { it \in UNION { { queue[i][j] : j \in DOMAIN queue[i] } : i \in Isolates } :
      it.inv = k }

\* C14: a fire-and-ignore invocation never settles a future and never has a
\* follow-up item on any queue; its Phase2 is called at most once, the
\* target's TaskEpilogue is called once when Phase2 returned and not at all
\* when it threw, the failure does not leave Run, and Phase3 is not called.
C14_IgnoredNeverSettles ==
  \A k \in Invs :
    inv[k].ignored =>
      /\ Settles(k) = 0 /\ inv[k].fu = 0 /\ inv[k].p3 = 0
      /\ \A it \in ItemsOf(k) : it.kind = "Phase2RunnerIgnored"
      /\ inv[k].p2 <= 1
      /\ (inv[k].p2 = 1 => ItemsOf(k) = {})
      /\ inv[k].epilogue = IF inv[k].p2res = "returned" THEN 1 ELSE 0
      /\ ~inv[k].escaped
C14_Witness ==
  \E k \in Invs :
    /\ inv[k].ignored /\ inv[k].p2res = "threw" /\ inv[k].epilogue = 0
    /\ stack[inv[k].target] = <<>>
    /\ \A i \in Isolates : queue[i] = <<>>

\* C15: an asynchronous invocation whose Phase1 threw has no future and no
\* item on any queue, calls no Phase2 and settles nothing, and the step that
\* makes it leaves every queue as it was.
C15_Phase1Throw ==
  /\ [](\A k \in Invs :
          inv[k].p1threw =>
            /\ ~inv[k].future /\ ~inv[k].queued
            /\ ItemsOf(k) = {}
            /\ inv[k].p2 = 0 /\ inv[k].fu = 0 /\ Settles(k) = 0)
  /\ [][(Len(inv') > Len(inv) /\ inv'[Len(inv')].p1threw) => queue' = queue]_vars
C15_Witness ==
  \E k \in Invs :
    /\ inv[k].p1threw /\ ~disposed[inv[k].target]
    /\ queue[inv[k].target] = <<>>
    /\ stack[inv[k].caller] = <<>>

\* The number of follow-up items of one kind posted so far for invocation
\* k: those still queued and those that have run.
Posted(kind, by, k) ==
  Cardinality({ p \in Isolates \X (1 .. (3 * MaxInv)) :
                  /\ p[2] \in DOMAIN queue[p[1]]
                  /\ queue[p[1]][p[2]].kind = kind
                  /\ queue[p[1]][p[2]].inv = k })
  + Cardinality({ j \in DOMAIN inv[k].settles : inv[k].settles[j].by = by })

\* C16: for an invocation with a future, an Orphan item is posted exactly
\* when its Phase2Runner was destroyed without Run having started; once Run
\* has started no Orphan item is ever posted, nothing is posted while Phase2
\* runs, and when Phase2 ends exactly one item is posted: Success if it
\* returned, Failure if it threw.
C16_OrphanExclusive ==
  \A k \in Invs :
    inv[k].future =>
      LET orphan == Posted("Phase3Orphan", "Orphan", k)
          success == Posted("Phase3Success", "Success", k)
          failure == Posted("Phase3Failure", "Failure", k)
      IN /\ orphan = IF inv[k].dropped /\ inv[k].p2 = 0 THEN 1 ELSE 0
         /\ inv[k].p2 <= 1
         /\ (inv[k].p2 = 0 => success = 0 /\ failure = 0)
         /\ (inv[k].p2 = 1 =>
               /\ orphan = 0
               /\ success = IF inv[k].p2res = "returned" THEN 1 ELSE 0
               /\ failure = IF inv[k].p2res = "threw" THEN 1 ELSE 0)
C16_Witness ==
  \E k \in Invs :
    /\ inv[k].future /\ inv[k].p2res = "threw"
    /\ disposed[inv[k].target]
    /\ Posted("Phase3Failure", "Failure", k) = 1
    /\ Posted("Phase3Orphan", "Orphan", k) = 0

FollowUps == {"Phase3Success", "Phase3Failure", "Phase3Orphan"}

\* The items and running runners that own the Task and CalleeInfo of
\* invocation k, counted with the runner Run has destroyed if it kept them.
Owners(k) ==
  Cardinality({ p \in Isolates \X (1 .. (3 * MaxInv)) :
                  /\ p[2] \in DOMAIN queue[p[1]]
                  /\ queue[p[1]][p[2]].inv = k
                  /\ queue[p[1]][p[2]].owns })
  + Cardinality({ t \in Threads :
                    \E d \in DOMAIN stack[t] :
                      /\ stack[t][d].kind = "Phase2Runner"
                      /\ stack[t][d].runner.inv = k
                      /\ stack[t][d].runner.owns })
  + (IF inv[k].kept THEN 1 ELSE 0)

\* C17: every queued follow-up item sits on the queue of the caller isolate
\* recorded for its invocation and owns the Task and CalleeInfo; every
\* follow-up that ran (and with it Phase3 and every settlement) ran in the
\* caller isolate; the runner keeps neither Task nor CalleeInfo once it has
\* posted, so that they have at most one owner at any time.
C17_FollowUpInCaller ==
  /\ \A i \in Isolates : \A j \in DOMAIN queue[i] :
       queue[i][j].kind \in FollowUps =>
         /\ i = queue[i][j].caller
         /\ i = inv[queue[i][j].inv].caller
         /\ queue[i][j].owns
  /\ \A k \in Invs :
       /\ Len(inv[k].ranin) = inv[k].fu
       /\ \A j \in DOMAIN inv[k].ranin : inv[k].ranin[j] = inv[k].caller
       /\ inv[k].fu = Settles(k)
       /\ ~inv[k].kept
       /\ Owners(k) <= 1
C17_Witness ==
  \E k \in Invs :
    /\ inv[k].caller # DefaultIsolate /\ inv[k].caller # inv[k].target
    /\ inv[k].p2res = "returned" /\ inv[k].p3 = 1
    /\ inv[k].ranin = <<inv[k].caller>>

\* C18: RunSync calls the target's TaskEpilogue once when it took the
\* ExecutorLock, the lock was not already held by the thread (is_recursive
\* false) and Phase2 returned; it calls it not at all on the shortcut path,
\* when the lock was already held, when Phase2 threw, or when the call
\* failed before Phase2.
C18_SyncEpilogue ==
  \A f \in SyncFrames :
    f.epilogue =
      IF /\ f.pc = "done" /\ f.path = "lock" /\ f.p2 = 1
         /\ ~f.recursive /\ f.p2val = NoValue
        THEN 1 ELSE 0
C18_Witness ==
  \E f \in DoneFrames :
    /\ f.path = "lock" /\ ~f.recursive /\ f.p2val = NoValue /\ f.epilogue = 1
    /\ f.outcome = "returned"

\* C19: on the locking path, when RunSync throws the stashed failure or
\* calls Phase3, the target's lock is as the call found it: what the call
\* took is released, after a Phase2 that returned and after one that threw.
C19_ReleasedBeforeCaller ==
  \A f \in DoneFrames :
    (f.path = "lock" /\ f.p2 = 1) =>
      /\ f.after = f.before
      /\ (~f.recursive => f.after = Unlocked)
      /\ f.outcome \in {"thrown", "p3threw", "returned"}
C19_Witness ==
  \E f \in DoneFrames :
    /\ f.path = "lock" /\ ~f.recursive /\ f.outcome = "thrown"
    /\ f.after = Unlocked
    /\ lock[f.target].holder = f.target

\* Occurrences of event e in a log, and "some a comes before some b".
Count(log, e) == Cardinality({ j \in DOMAIN log : log[j] = e })
Before(log, a, b) ==
  \E i \in DOMAIN log : \E j \in DOMAIN log : i < j /\ log[i] = a /\ log[j] = b
NeverBefore(log, a, b) == ~Before(log, a, b)

\* C20: a follow-up item that ran settled the future once and then called
\* RunMicrotasks once, before its CallbackScope (if it has one) ended; the
\* runner called TaskEpilogue once when Phase2 returned, after Phase2 and
\* before it posted the Success item, and not at all when Phase2 threw.
C20_DrainAndEpilogue ==
  \A k \in Invs :
    inv[k].future =>
      LET log == inv[k].log
          settled == Count(log, "Resolve") + Count(log, "Reject")
      IN /\ settled = inv[k].fu
         /\ Count(log, "RunMicrotasks") = inv[k].fu
         /\ NeverBefore(log, "RunMicrotasks", "Resolve")
         /\ NeverBefore(log, "RunMicrotasks", "Reject")
         /\ NeverBefore(log, "~CallbackScope", "RunMicrotasks")
         /\ Count(log, "~CallbackScope") =
              IF inv[k].caller = DefaultIsolate THEN inv[k].fu ELSE 0
         /\ Count(log, "TaskEpilogue") = IF inv[k].p2res = "returned" THEN 1 ELSE 0
         /\ Count(log, "ScheduleTask") = IF inv[k].p2res = "none" THEN 0 ELSE 1
         /\ NeverBefore(log, "TaskEpilogue", "Phase2")
         /\ NeverBefore(log, "ScheduleTask", "TaskEpilogue")
C20_Witness ==
  \E k \in Invs :
    inv[k].log = <<"Phase2", "TaskEpilogue", "ScheduleTask",
                   "CallbackScope", "Phase3", "Resolve", "RunMicrotasks",
                   "~CallbackScope">>

====
